---- MODULE Spec2Model ----
(***************************************************************************)
(* Model of package gormuuid (uuid.go): the embeddable UUID struct with    *)
(* its ID []byte field, the BeforeCreate hook and the UUID() accessor,     *)
(* together with the parts of github.com/google/uuid the two methods call  *)
(* (New, MarshalBinary, FromBytes).                                        *)
(*                                                                         *)
(* A byte is an integer in 0..255.  A []byte is a sequence of bytes (nil   *)
(* and the empty slice are both << >>: the code only looks at len).  A     *)
(* uuid.UUID is a [16]byte array, modelled as a function on 0..15.         *)
(***************************************************************************)
EXTENDS Integers, Sequences, FiniteSets, TLC

\* ---------------------------------------------------------------- bounds
\* Number of records (values embedding gormuuid.UUID) alive at once.
NumRecords == 2
\* Caller-supplied ID fields have every length in 0..MaxSuppliedLen.
MaxSuppliedLen == 17
\* Number of distinct byte values the random source and callers draw from.
NumSamples == 2

\* ------------------------------------------------------------- constants
\* len(u.ID) == 16, the size of a uuid.UUID
UUIDLen == 16

Records == 1..NumRecords

\* Sample byte values: 0, 255, 254, ...  (all bits clear, all bits set, ...)
Samples == { (255 * k) % 256 : k \in 0..(NumSamples - 1) }

\* n pairwise different bytes: 255, 254, 253, ...
Ramp(n) == [i \in 1..n |-> 256 - i]

\* n zero bytes.
Zeros(n) == [i \in 1..n |-> 0]

\* The ID fields a caller may have set before the hook runs: every length
\* up to MaxSuppliedLen (0 is the field of a freshly constructed record),
\* and the 16 zero bytes of the nil UUID.
SuppliedIDs ==
    { Ramp(n) : n \in 0..MaxSuppliedLen } \cup { Zeros(UUIDLen) }

\* What crypto/rand may deliver for the 16 bytes of a new UUID.  Bytes 6 and
\* 8 (those the version and variant are written into) take every sample
\* value independently; the other bytes differ from one another.
RandBufs ==
    { [i \in 0..(UUIDLen - 1) |->
          IF i = 6 THEN a ELSE IF i = 8 THEN b ELSE (a + b + i) % 256] :
        a \in Samples, b \in Samples }

\* ----------------------------------------------------------------- errors
\* A nil error.
NoErr == [msg |-> "nil", n |-> 0]

\* var ErrorNoUUID = errors.New("UUID has not been created")
ErrorNoUUID == [msg |-> "UUID has not been created", n |-> 0]

\* google/uuid: fmt.Errorf("invalid UUID (got %d bytes)", len(data))
ErrInvalidLength(n) == [msg |-> "invalid UUID (got %d bytes)", n |-> n]

\* --------------------------------------------------- github.com/google/uuid
\* The zero value of uuid.UUID (uuid.Nil).
NilUUID == [i \in 0..(UUIDLen - 1) |-> 0]

NewRandomNoVersion(rnd) ==
    [rnd EXCEPT ![8] = (rnd[8] % 64) + 128]

\* uuid.NewRandom on a successful read of 16 random bytes:
\*   uuid[6] = (uuid[6] & 0x0f) | 0x40   // Version 4
\*   uuid[8] = (uuid[8] & 0x3f) | 0x80   // Variant is 10
NewRandom(rnd) ==
    [rnd EXCEPT ![6] = (rnd[6] % 16) + 64, ![8] = (rnd[8] % 64) + 128]

\* uuid.UUID.MarshalBinary: return uuid[:], nil
MarshalBinary(u) ==
    [i \in 1..UUIDLen |-> u[i - 1]]

FromBytesReversed(b) ==
    IF Len(b) /= UUIDLen
    THEN [uuid |-> NilUUID, err |-> ErrInvalidLength(Len(b))]
    ELSE [uuid |-> [i \in 0..(UUIDLen - 1) |-> b[UUIDLen - i]], err |-> NoErr]

\* uuid.FromBytes: err = uuid.UnmarshalBinary(b), which rejects every length
\* but 16 with its own error and otherwise copies the bytes into the array.
FromBytes(b) ==
    IF Len(b) /= UUIDLen
    THEN [uuid |-> NilUUID, err |-> ErrInvalidLength(Len(b))]
    ELSE [uuid |-> [i \in 0..(UUIDLen - 1) |-> b[i + 1]], err |-> NoErr]

\* uuid.UUID.Version: uuid[6] >> 4
Version(u) == u[6] \div 16

\* The two top bits of uuid[8]; 2 (binary 10) is the RFC 4122 variant.
VariantBits(u) == u[8] \div 64

\* ------------------------------------------------------------------ state
VARIABLES
    ID,     \* ID[r]: the ID field of record r
    last    \* the last call made: method, receiver, the receiver's field on
            \* entry, how the call ended and what it returned

vars == <<ID, last>>

\* How a call ends.
Returned == "returned"
Panicked == "panicked"

Call(op, r, out, err, ret, local) ==
    [op |-> op, rec |-> r, old |-> ID[r], outcome |-> out,
     err |-> err, ret |-> ret, uuid |-> local]

Init ==
    /\ ID \in [Records -> SuppliedIDs]
    /\ last = [op |-> "none", rec |-> 1, old |-> << >>, outcome |-> Returned,
               err |-> NoErr, ret |-> NilUUID, uuid |-> << >>]

HasIDLonger(id) == Len(id) > UUIDLen

HasIDAlwaysNew(id) == FALSE

HasIDNonEmpty(id) == Len(id) /= 0

\* if len(u.ID) == 16 { return }
HasID(id) == Len(id) = UUIDLen

\* BeforeCreate, first return: an ID of 16 bytes is respected.
BeforeCreateKeep(r) ==
    /\ HasID(ID[r])
    /\ last' = Call("BeforeCreate", r, Returned, NoErr, NilUUID, << >>)
    /\ UNCHANGED ID

BeforeCreateGenerateShared(r) ==
    /\ ~HasID(ID[r])
    /\ \E rnd \in RandBufs :
          LET uuid == MarshalBinary(NewRandom(rnd))
          IN  /\ ID' = [q \in Records |-> uuid]
              /\ last' = Call("BeforeCreate", r, Returned, NoErr, NilUUID, uuid)

\* BeforeCreate, uuid.New() succeeds: uuid, err := uuid.New().MarshalBinary();
\* err is nil; u.ID = uuid.
BeforeCreateGenerate(r) ==
    /\ ~HasID(ID[r])
    /\ \E rnd \in RandBufs :
          LET uuid == MarshalBinary(NewRandom(rnd))
          IN  /\ ID' = [ID EXCEPT ![r] = uuid]
              /\ last' = Call("BeforeCreate", r, Returned, NoErr, NilUUID, uuid)

\* BeforeCreate, the random source fails: uuid.New() is Must(NewRandom()) and
\* has no error result, so the failure leaves BeforeCreate as a panic.
BeforeCreatePanic(r) ==
    /\ ~HasID(ID[r])
    /\ last' = Call("BeforeCreate", r, Panicked, NoErr, NilUUID, << >>)
    /\ UNCHANGED ID

BeforeCreateRevalidate(r) ==
    \/ /\ HasID(ID[r]) /\ Version(FromBytes(ID[r]).uuid) = 4
       /\ BeforeCreateKeep(r)
    \/ /\ HasID(ID[r]) /\ Version(FromBytes(ID[r]).uuid) /= 4
       /\ \E rnd \in RandBufs :
             LET uuid == MarshalBinary(NewRandom(rnd))
             IN  /\ ID' = [ID EXCEPT ![r] = uuid]
                 /\ last' = Call("BeforeCreate", r, Returned, NoErr, NilUUID, uuid)
    \/ BeforeCreateGenerate(r)
    \/ BeforeCreatePanic(r)

\* func (u *UUID) BeforeCreate() (err error)
BeforeCreate(r) ==
    \/ BeforeCreateKeep(r)
    \/ BeforeCreateGenerate(r)
    \/ BeforeCreatePanic(r)

UUIDClearsBadID(r) ==
    LET res == FromBytes(ID[r])
    IN  /\ last' = Call("UUID", r, Returned, res.err, res.uuid, << >>)
        /\ ID' = [ID EXCEPT ![r] = IF res.err = NoErr THEN @ ELSE << >>]

\* func (u *UUID) UUID() (uuid.UUID, error) { return uuid.FromBytes(u.ID) }
UUID(r) ==
    LET res == FromBytes(ID[r])
    IN  /\ last' = Call("UUID", r, Returned, res.err, res.uuid, << >>)
        /\ UNCHANGED ID

Next ==
    \E r \in Records :
        \/ BeforeCreate(r)
        \/ UUID(r)

Spec == Init /\ [][Next]_vars

\* ------------------------------------------------------------ properties
\* The last call was method op and it returned (it did not panic).
ReturnedFrom(op) == last.op = op /\ last.outcome = Returned

\* The values uuid.New().MarshalBinary() can produce.
Generated == { MarshalBinary(NewRandom(rnd)) : rnd \in RandBufs }

\* The last call was a BeforeCreate that had to generate an identifier (the
\* field was not 16 bytes long) and the library produced none.
LibraryFailed ==
    /\ last.op = "BeforeCreate"
    /\ ~HasID(last.old)
    /\ last.uuid = << >>

\* C1: UUID() on a field whose length is not 16 returns ErrorNoUUID together
\* with the zero-value UUID.
C1_DecodeReturnsErrorNoUUID ==
    (ReturnedFrom("UUID") /\ Len(last.old) /= UUIDLen)
        => (last.err = ErrorNoUUID /\ last.ret = NilUUID)

\* C2: a BeforeCreate that returns on an empty field returns a nil error and
\* leaves exactly 16 bytes, which decode without error to a UUID of version 4
\* and RFC 4122 variant (10xx).
C2_EmptyFieldGetsV4 ==
    (ReturnedFrom("BeforeCreate") /\ Len(last.old) = 0)
        => /\ last.err = NoErr
           /\ Len(ID[last.rec]) = UUIDLen
           /\ FromBytes(ID[last.rec]).err = NoErr
           /\ Version(FromBytes(ID[last.rec]).uuid) = 4
           /\ VariantBits(FromBytes(ID[last.rec]).uuid) = 2

\* C2 witness: the hook has filled an empty field, from random bytes that had
\* every bit of bytes 6 and 8 set.
C2_Witness ==
    /\ ReturnedFrom("BeforeCreate")
    /\ last.old = << >>
    /\ Len(ID[last.rec]) = UUIDLen
    /\ ID[last.rec][7] = 79
    /\ ID[last.rec][9] = 191

\* C3: BeforeCreate on a field of 16 bytes returns a nil error, generates
\* nothing and leaves the field byte for byte as it was.
C3_SuppliedIDRespected ==
    (last.op = "BeforeCreate" /\ Len(last.old) = UUIDLen)
        => /\ last.outcome = Returned
           /\ last.err = NoErr
           /\ last.uuid = << >>
           /\ ID[last.rec] = last.old

\* C3 witness: the hook has run on a field holding 16 zero bytes, which are
\* not a version-4 UUID.
C3_Witness ==
    /\ ReturnedFrom("BeforeCreate")
    /\ last.old = Zeros(UUIDLen)
    /\ ID[last.rec] = Zeros(UUIDLen)

\* C4: UUID() on a field of 16 bytes returns a nil error and a UUID whose
\* bytes are the field's bytes in the same order; 16 zero bytes give the nil
\* UUID.
C4_DecodeKeepsBytes ==
    (ReturnedFrom("UUID") /\ Len(last.old) = UUIDLen)
        => /\ last.err = NoErr
           /\ \A i \in 0..(UUIDLen - 1) : last.ret[i] = last.old[i + 1]
           /\ (last.old = Zeros(UUIDLen) => last.ret = NilUUID)

\* C4 witness: UUID() has decoded 16 pairwise different bytes.
C4_Witness ==
    /\ ReturnedFrom("UUID")
    /\ last.old = Ramp(UUIDLen)
    /\ last.ret[0] = 255
    /\ last.ret[UUIDLen - 1] = 256 - UUIDLen

\* C5: a BeforeCreate that follows a successful BeforeCreate on the same
\* record returns a nil error and leaves the field as the first call left it.
C5_HookIdempotent ==
    [][ ( /\ ReturnedFrom("BeforeCreate")
          /\ last.err = NoErr
          /\ last'.op = "BeforeCreate"
          /\ last'.rec = last.rec )
        => ( /\ last'.outcome = Returned
             /\ last'.err = NoErr
             /\ ID'[last.rec] = ID[last.rec] ) ]_vars

\* C5 witness: the hook has run on a field that an earlier hook call filled
\* (callers supply no version-4 value here).
C5_Witness ==
    /\ ReturnedFrom("BeforeCreate")
    /\ last.old \in Generated
    /\ last.uuid = << >>

\* C6: when the library fails to produce an identifier, BeforeCreate returns
\* a non-nil error (it does not panic) and leaves the field as it was.
C6_FailurePropagated ==
    LibraryFailed
        => /\ last.outcome = Returned
           /\ last.err /= NoErr
           /\ ID[last.rec] = last.old

\* C7: UUID() leaves the field as it found it, whatever its length and
\* whether or not it returns an error.
C7_DecodeNoSideEffect ==
    last.op = "UUID" => ID[last.rec] = last.old

\* C7 witness: UUID() has failed on a field of 5 bytes.
C7_Witness ==
    /\ ReturnedFrom("UUID")
    /\ last.err /= NoErr
    /\ Len(last.old) = 5
    /\ ID[last.rec] = Ramp(5)

\* C8: a field changes only in a step of BeforeCreate on its record, from a
\* length other than 16 to length 16; so a populated field never changes and
\* a field changes at most once.
C8_OneWayTransition ==
    [][ \A r \in Records :
          ID'[r] /= ID[r]
            => /\ Len(ID[r]) /= UUIDLen
               /\ Len(ID'[r]) = UUIDLen
               /\ last'.op = "BeforeCreate"
               /\ last'.rec = r ]_vars

\* C8 witness: a record constructed with an empty field was populated by the
\* hook.
C8_Witness ==
    /\ last.op = "BeforeCreate"
    /\ last.old = << >>
    /\ ID[last.rec] /= last.old
    /\ ID[last.rec] \in Generated

\* C9: a BeforeCreate that returns on a non-empty field whose length is not
\* 16 stores the freshly generated UUID, exactly 16 bytes, in place of the
\* old content.
C9_WrongLengthReplaced ==
    (ReturnedFrom("BeforeCreate") /\ Len(last.old) \notin {0, UUIDLen})
        => /\ last.err = NoErr
           /\ last.uuid \in Generated
           /\ ID[last.rec] = last.uuid
           /\ Len(ID[last.rec]) = UUIDLen

\* C9 witness: the hook has replaced a field of 17 bytes.
C9_Witness ==
    /\ ReturnedFrom("BeforeCreate")
    /\ last.old = Ramp(UUIDLen + 1)
    /\ Len(ID[last.rec]) = UUIDLen

\* C10: a call on one record leaves every other record's field unchanged.
C10_RecordsIndependent ==
    [][ \A r \in Records : r /= last'.rec => ID'[r] = ID[r] ]_vars

\* C10 witness: the hook has populated one record while another record still
\* has the wrong-length field it was constructed with.
C10_Witness ==
    /\ ReturnedFrom("BeforeCreate")
    /\ last.uuid /= << >>
    /\ \E q \in Records : q /= last.rec /\ Len(ID[q]) = 5

====
